---- MODULE Spec2Model ----
(***************************************************************************)
(* Model of python_service/image_classifier.py: a Flask service that loads *)
(* one image-classification pipeline into the module global `classifier`   *)
(* and answers GET /health, POST /classify and POST /classify_url.         *)
(*                                                                         *)
(* The two classify handlers read the global twice: at the model check     *)
(* (lines 70, 127) and at the call classifier(image) (lines 94, 155).      *)
(* Each handler is therefore modelled as two steps, split right before     *)
(* the call, so that other requests and load_model can run in between.     *)
(* Everything else a handler touches is local to its request.              *)
(***************************************************************************)
EXTENDS Integers, Sequences, FiniteSets

\* ---------------------------------------------------------------- bounds
NumReq == 2        \* requests handled at the same time
MaxResults == 11   \* longest ranked list the pipeline returns
MaxScore == 1      \* scores are levels 0..MaxScore of the interval [0,1]
MaxLoads == 2      \* calls of load_model by an importing host

\* ------------------------------------------------------ program constants
TopLabels == 10    \* results[:10]
TopObjects == 5    \* labels[:5]

None == "None"
Pipeline == "pipeline"
DefaultModel == "google/vit-base-patch16-224"
\* os.getenv('HF_MODEL', default) in a process whose environment leaves it unset
HfModel == DefaultModel

Reqs == 1..NumReq
Scores == 0..MaxScore

VARIABLES
    entry,        \* "main": run as a script; "import": imported by a host (WSGI, test client)
    phase,        \* "startup" | "serving" | "exited"
    exitCode,     \* status passed to sys.exit, meaningful when phase = "exited"
    classifier,   \* the module global: None or the loaded pipeline
    loads,        \* calls of load_model so far
    pending,      \* per request in flight: "idle", or the handler waiting to call classifier(image)
    healthy,      \* some GET /health has answered model_loaded: true
    wire          \* the exchange being answered: the request, what the environment did, the reply;
                  \* NoExchange once the reply is delivered

vars == <<entry, phase, exitCode, classifier, loads, pending, healthy, wire>>

\* ------------------------------------------------------------ environment
\* What a POST /classify carries.
UploadKinds == {"no_image", "image"}
\* What image_file.read() / response.content decode to.
ImageKinds == {"rgb", "other_mode", "undecodable"}
\* What a POST /classify_url carries as its body.
BodyKinds == {"not_json", "null", "number", "boolean", "string", "string_url",
              "array", "array_url", "object", "object_url"}
\* What requests.get + raise_for_status do.
FetchOutcomes == {"ok", "timeout", "http_error", "invalid_url"}

\* Python slicing s[:n].
Take(s, n) == SubSeq(s, 1, IF Len(s) < n THEN Len(s) ELSE n)

RECURSIVE NonIncreasing(_, _)
\* The score columns of length n, none above top, in descending order.
NonIncreasing(n, top) ==
    IF n = 0 THEN {<<>>}
    ELSE UNION {{<<s>> \o t : t \in NonIncreasing(n - 1, s)} : s \in 0..top}

\* A ranked list: the scores descend; the classes of one ranking are distinct,
\* numbered up or down the ranking.
Ranked(col, up) ==
    [i \in 1..Len(col) |-> [label |-> IF up THEN i ELSE Len(col) + 1 - i, score |-> col[i]]]

ModelOutputs ==
    {Ranked(col, up) : col \in UNION {NonIncreasing(n, MaxScore) : n \in 0..MaxResults},
                       up \in BOOLEAN}

\* ------------------------------------------------------- handler outcomes
Reply(status, body) == [kind |-> "reply", status |-> status, body |-> body, exc |-> "none"]
Raise(e) == [kind |-> "raise", exc |-> e]
Continue == [kind |-> "continue"]

\* str(e) of the exceptions the handlers can meet.
Message(e) ==
    CASE e = "UnidentifiedImageError" -> "cannot identify image file"
      [] e = "OSError" -> "image file is truncated"
      [] e = "RuntimeError" -> "model runtime error"
      [] e = "Timeout" -> "read timed out"
      [] e = "HTTPError" -> "404 Client Error"
      [] e = "MissingSchema" -> "Invalid URL"
      [] e = "UnsupportedMediaType" -> "415 Unsupported Media Type"
      [] e = "TypeError" -> "argument of type is not iterable"
      [] e = "NoneTypeNotCallable" -> "'NoneType' object is not callable"

ErrorBody(msg) == [error |-> msg, labels |-> <<>>]

\* Mutant of Catch: a failure is answered by an empty 200 envelope.
CatchFallsBack(o) ==
    IF o.kind = "raise"
    THEN [kind |-> "reply", status |-> 200, exc |-> o.exc,
          body |-> [labels |-> <<>>, colors |-> <<>>, objects |-> <<>>, confidence |-> 0,
                    source |-> "local_transformers", model |-> HfModel]]
    ELSE o

\* except Exception as e: return jsonify({'error': str(e), 'labels': []}), 500
Catch(o) ==
    IF o.kind = "raise"
    THEN [kind |-> "reply", status |-> 500, body |-> ErrorBody(Message(o.exc)), exc |-> o.exc]
    ELSE o

\* --------------------------------------------------------- result formatter
\* Mutant of FormatLabels: the ranked list is not cut to its first ten entries.
FormatLabelsUncut(results) ==
    [i \in 1..Len(results) |->
        [description |-> results[i].label, confidence |-> results[i].score]]

\* for result in results[:10]: labels.append({'description': ..., 'confidence': ...})
FormatLabels(results) ==
    [i \in 1..Len(Take(results, TopLabels)) |->
        [description |-> results[i].label, confidence |-> results[i].score]]

\* Mutant of Envelope: objects is the whole of labels.
EnvelopeObjectsUncut(results) ==
    LET labels == FormatLabels(results)
    IN  [labels |-> labels,
         colors |-> <<>>,
         objects |-> labels,
         confidence |-> IF labels # <<>> THEN labels[1].confidence ELSE 0,
         source |-> "local_transformers",
         model |-> HfModel]

\* Mutant of Envelope: confidence is taken from the last label.
EnvelopeConfidenceLast(results) ==
    LET labels == FormatLabels(results)
    IN  [labels |-> labels,
         colors |-> <<>>,
         objects |-> Take(labels, TopObjects),
         confidence |-> IF labels # <<>> THEN labels[Len(labels)].confidence ELSE 0,
         source |-> "local_transformers",
         model |-> HfModel]

\* The dict handed to jsonify on success.
Envelope(results) ==
    LET labels == FormatLabels(results)
    IN  [labels |-> labels,
         colors |-> <<>>,
         objects |-> Take(labels, TopObjects),
         confidence |-> IF labels # <<>> THEN labels[1].confidence ELSE 0,
         source |-> "local_transformers",
         model |-> HfModel]

\* ------------------------------------------------------------- load_model
\* Mutant of LoadModel: a failed load clears the global.
LoadModelClearsOnFailure(c, ok) ==
    IF ok THEN [classifier |-> Pipeline, returned |-> TRUE]
    ELSE [classifier |-> None, returned |-> FALSE]

\* load_model: the global is assigned only when pipeline(...) returns.
LoadModel(c, ok) ==
    IF ok THEN [classifier |-> Pipeline, returned |-> TRUE]
    ELSE [classifier |-> c, returned |-> FALSE]

\* Mutant of MainAfterLoad: the result of load_model is ignored.
MainIgnoresLoad(returned) == [phase |-> "serving", exitCode |-> 0]

\* __main__: if not load_model(model_name): sys.exit(1); ...; app.run(...)
MainAfterLoad(returned) ==
    IF ~returned THEN [phase |-> "exited", exitCode |-> 1]
    ELSE [phase |-> "serving", exitCode |-> 0]

\* ----------------------------------------------------------------- /health
HealthReply(c) == Reply(200, [status |-> "ok", model_loaded |-> (c # None)])

\* --------------------------------------------------------------- /classify
\* Mutant of ClassifyPrepare: the image check comes before the model check.
ClassifyPrepareChecksImageFirst(c, upload, img, convOk) ==
    IF upload = "no_image" THEN Reply(400, ErrorBody("No image file provided"))
    ELSE IF c = None THEN Reply(500, ErrorBody("Model not loaded"))
    ELSE IF img = "undecodable" THEN Raise("UnidentifiedImageError")
    ELSE IF img = "other_mode" /\ ~convOk THEN Raise("OSError")
    ELSE Continue

\* classify_image up to the call of the classifier: model check, image check,
\* Image.open, convert('RGB').
ClassifyPrepare(c, upload, img, convOk) ==
    IF c = None THEN Reply(500, ErrorBody("Model not loaded"))
    ELSE IF upload = "no_image" THEN Reply(400, ErrorBody("No image file provided"))
    ELSE IF img = "undecodable" THEN Raise("UnidentifiedImageError")
    ELSE IF img = "other_mode" /\ ~convOk THEN Raise("OSError")
    ELSE Continue

\* classify_image from results = classifier(image) to the return of the envelope.
ClassifyInfer(c, raises, results) ==
    IF c = None THEN Raise("NoneTypeNotCallable")
    ELSE IF raises THEN Raise("RuntimeError")
    ELSE Reply(200, Envelope(results))

\* ----------------------------------------------------------- /classify_url
\* request.get_json(): the parsed body, or an exception for a body that is not JSON.
\* 'url' not in data: a TypeError for None, a number or a boolean; a substring
\* test for a string; an element test for a list; a key test for a dict.
UrlMissing(body) == body \in {"string", "array", "object"}
UrlTestRaises(body) == body \in {"null", "number", "boolean"}
\* data['url']: a TypeError for a string or a list.
UrlSubscriptRaises(body) == body \in {"string_url", "array_url"}

\* requests.get(data['url'], timeout=10) is reached.
UrlFetched(c, body) == c # None /\ body = "object_url"

\* Mutant of UrlPrepare: the body is read before the model check.
UrlPrepareReadsBodyFirst(c, body, fetch, img, convOk) ==
    IF body = "not_json" THEN Raise("UnsupportedMediaType")
    ELSE IF UrlTestRaises(body) THEN Raise("TypeError")
    ELSE IF UrlMissing(body) THEN Reply(400, ErrorBody("No image URL provided"))
    ELSE IF c = None THEN Reply(500, ErrorBody("Model not loaded"))
    ELSE IF UrlSubscriptRaises(body) THEN Raise("TypeError")
    ELSE IF fetch = "timeout" THEN Raise("Timeout")
    ELSE IF fetch = "http_error" THEN Raise("HTTPError")
    ELSE IF fetch = "invalid_url" THEN Raise("MissingSchema")
    ELSE IF img = "undecodable" THEN Raise("UnidentifiedImageError")
    ELSE IF img = "other_mode" /\ ~convOk THEN Raise("OSError")
    ELSE Continue

\* classify_image_url up to the call of the classifier.
UrlPrepare(c, body, fetch, img, convOk) ==
    IF c = None THEN Reply(500, ErrorBody("Model not loaded"))
    ELSE IF body = "not_json" THEN Raise("UnsupportedMediaType")
    ELSE IF UrlTestRaises(body) THEN Raise("TypeError")
    ELSE IF UrlMissing(body) THEN Reply(400, ErrorBody("No image URL provided"))
    ELSE IF UrlSubscriptRaises(body) THEN Raise("TypeError")
    ELSE IF fetch = "timeout" THEN Raise("Timeout")
    ELSE IF fetch = "http_error" THEN Raise("HTTPError")
    ELSE IF fetch = "invalid_url" THEN Raise("MissingSchema")
    ELSE IF img = "undecodable" THEN Raise("UnidentifiedImageError")
    ELSE IF img = "other_mode" /\ ~convOk THEN Raise("OSError")
    ELSE Continue

\* classify_image_url from results = classifier(image) to the return of the envelope.
UrlInfer(c, raises, results) ==
    IF c = None THEN Raise("NoneTypeNotCallable")
    ELSE IF raises THEN Raise("RuntimeError")
    ELSE Reply(200, Envelope(results))

\* ------------------------------------------------------------------ state
NoExchange ==
    [endpoint |-> "none", handle |-> None, req |-> "none", exc |-> "none",
     fetches |-> 0, infers |-> 0, results |-> <<>>, status |-> 0,
     body |-> [labels |-> <<>>]]

\* One completed exchange: o is the handler's reply.
Exchange(endpoint, handle, req, fetches, infers, results, o) ==
    [endpoint |-> endpoint, handle |-> handle, req |-> req, exc |-> o.exc,
     fetches |-> fetches, infers |-> infers, results |-> results,
     status |-> o.status, body |-> o.body]

Init ==
    /\ entry \in {"main", "import"}
    /\ phase = IF entry = "main" THEN "startup" ELSE "serving"
    /\ exitCode = 0
    /\ classifier = None
    /\ loads = 0
    /\ pending = [r \in Reqs |-> "idle"]
    /\ healthy = FALSE
    /\ wire = NoExchange

\* python image_classifier.py: load the model, then exit or serve.
Main ==
    /\ entry = "main"
    /\ phase = "startup"
    /\ \E ok \in BOOLEAN :
        LET l == LoadModel(classifier, ok)
            m == MainAfterLoad(l.returned)
        IN  /\ classifier' = l.classifier
            /\ loads' = loads + 1
            /\ phase' = m.phase
            /\ exitCode' = m.exitCode
    /\ UNCHANGED <<entry, pending, healthy, wire>>

\* A host that imported the module calls load_model() while the app serves.
HostLoad ==
    /\ entry = "import"
    /\ phase = "serving"
    /\ loads < MaxLoads
    /\ \E ok \in BOOLEAN :
        classifier' = LoadModel(classifier, ok).classifier
    /\ loads' = loads + 1
    /\ UNCHANGED <<entry, phase, exitCode, pending, healthy, wire>>

\* GET /health, whatever the request carries.
Health ==
    /\ phase = "serving"
    /\ wire = NoExchange
    /\ \E body \in BodyKinds :
        wire' = Exchange("health", classifier, body, 0, 0, <<>>, HealthReply(classifier))
    /\ healthy' = (healthy \/ wire'.body.model_loaded)
    /\ UNCHANGED <<entry, phase, exitCode, classifier, loads, pending>>

\* POST /classify arrives and runs up to the call of the classifier.
ClassifyBegin(r) ==
    /\ phase = "serving"
    /\ wire = NoExchange
    /\ pending[r] = "idle"
    /\ \E upload \in UploadKinds, img \in ImageKinds, convOk \in BOOLEAN :
        LET o == Catch(ClassifyPrepare(classifier, upload, img, convOk))
        IN  IF o.kind = "continue"
            THEN /\ pending' = [pending EXCEPT ![r] = "classify"]
                 /\ UNCHANGED wire
            ELSE /\ wire' = Exchange("classify", classifier, upload, 0, 0, <<>>, o)
                 /\ UNCHANGED pending
    /\ UNCHANGED <<entry, phase, exitCode, classifier, loads, healthy>>

\* Mutant of ClassifyFinish: a failed inference drops the shared model handle.
ClassifyFinishDropsModel(r) ==
    /\ pending[r] = "classify"
    /\ wire = NoExchange
    /\ \E raises \in BOOLEAN, results \in ModelOutputs :
        LET o == Catch(ClassifyInfer(classifier, raises, results))
        IN  /\ wire' = Exchange("classify", Pipeline, "image", 0,
                                IF classifier # None THEN 1 ELSE 0,
                                IF o.status = 200 THEN results ELSE <<>>, o)
            /\ classifier' = IF o.status = 200 THEN classifier ELSE None
    /\ pending' = [pending EXCEPT ![r] = "idle"]
    /\ UNCHANGED <<entry, phase, exitCode, loads, healthy>>

\* POST /classify calls the classifier and answers.
ClassifyFinish(r) ==
    /\ pending[r] = "classify"
    /\ wire = NoExchange
    /\ \E raises \in BOOLEAN, results \in ModelOutputs :
        LET o == Catch(ClassifyInfer(classifier, raises, results))
        IN  wire' = Exchange("classify", Pipeline, "image", 0,
                             IF classifier # None THEN 1 ELSE 0,
                             IF o.status = 200 THEN results ELSE <<>>, o)
    /\ pending' = [pending EXCEPT ![r] = "idle"]
    /\ UNCHANGED <<entry, phase, exitCode, classifier, loads, healthy>>

\* POST /classify_url arrives and runs up to the call of the classifier.
UrlBegin(r) ==
    /\ phase = "serving"
    /\ wire = NoExchange
    /\ pending[r] = "idle"
    /\ \E body \in BodyKinds, fetch \in FetchOutcomes, img \in ImageKinds, convOk \in BOOLEAN :
        LET o == Catch(UrlPrepare(classifier, body, fetch, img, convOk))
            f == IF UrlFetched(classifier, body) THEN 1 ELSE 0
        IN  IF o.kind = "continue"
            THEN /\ pending' = [pending EXCEPT ![r] = "classify_url"]
                 /\ UNCHANGED wire
            ELSE /\ wire' = Exchange("classify_url", classifier, body, f, 0, <<>>, o)
                 /\ UNCHANGED pending
    /\ UNCHANGED <<entry, phase, exitCode, classifier, loads, healthy>>

\* POST /classify_url calls the classifier and answers.
UrlFinish(r) ==
    /\ pending[r] = "classify_url"
    /\ wire = NoExchange
    /\ \E raises \in BOOLEAN, results \in ModelOutputs :
        LET o == Catch(UrlInfer(classifier, raises, results))
        IN  wire' = Exchange("classify_url", Pipeline, "object_url", 1,
                             IF classifier # None THEN 1 ELSE 0,
                             IF o.status = 200 THEN results ELSE <<>>, o)
    /\ pending' = [pending EXCEPT ![r] = "idle"]
    /\ UNCHANGED <<entry, phase, exitCode, classifier, loads, healthy>>

\* The server writes the reply to the client; the exchange is over.
Deliver ==
    /\ wire # NoExchange
    /\ wire' = NoExchange
    /\ UNCHANGED <<entry, phase, exitCode, classifier, loads, pending, healthy>>

Next ==
    \/ Main
    \/ HostLoad
    \/ Health
    \/ \E r \in Reqs : ClassifyBegin(r)
    \/ \E r \in Reqs : ClassifyFinish(r)
    \/ \E r \in Reqs : UrlBegin(r)
    \/ \E r \in Reqs : UrlFinish(r)
    \/ Deliver

Spec == Init /\ [][Next]_vars

\* ------------------------------------------------------------------ claims
IsClassify(w) == w.endpoint \in {"classify", "classify_url"}
Smaller(a, b) == IF a < b THEN a ELSE b

\* C1: with the model handle unset at the model check, /classify and
\* /classify_url answer 500 with labels = [] and a non-empty error, whatever the
\* request carries, and nothing is read, fetched or inferred.
C1_UnloadedAnswers500 ==
    (IsClassify(wire) /\ wire.handle = None) =>
        /\ wire.status = 500
        /\ wire.body.labels = <<>>
        /\ wire.body.error # ""
        /\ wire.exc = "none"
        /\ wire.fetches = 0
        /\ wire.infers = 0

C1_Witness ==
    /\ wire.endpoint = "classify_url"
    /\ wire.handle = None
    /\ wire.req = "not_json"
    /\ wire.status = 500

\* C2: with the model loaded, /classify_url answers 400 with labels = [] for
\* every JSON body without a `url` member (object, array, string, number,
\* boolean, null), never through the catch-all 500 and never with a fetch.
C2_BodyWithoutUrlAnswers400 ==
    (/\ wire.endpoint = "classify_url"
     /\ wire.handle # None
     /\ wire.req \in {"null", "number", "boolean", "string", "string_url",
                      "array", "array_url", "object"}) =>
        /\ wire.status = 400
        /\ wire.body.labels = <<>>
        /\ wire.exc = "none"
        /\ wire.fetches = 0

\* C3: /classify checks the model first and the image second: without an image
\* the answer is 500 while the model is unset and 400 {error, labels: []} once
\* it is loaded, the classifier is not called, and a 400 is only ever answered
\* after the model check has passed.
C3_ImageCheckFollowsModelCheck ==
    /\ (wire.endpoint = "classify" /\ wire.req = "no_image") =>
        IF wire.handle = None
        THEN wire.status = 500
        ELSE /\ wire.status = 400
             /\ DOMAIN wire.body = {"error", "labels"}
             /\ wire.body.labels = <<>>
             /\ wire.body.error # ""
             /\ wire.exc = "none"
             /\ wire.infers = 0
    /\ (wire.endpoint = "classify" /\ wire.status = 400) =>
        (wire.handle # None /\ wire.req = "no_image")

C3_Witness ==
    /\ wire.endpoint = "classify"
    /\ wire.req = "no_image"
    /\ wire.handle # None
    /\ wire.status = 400

\* C4: with the model loaded, an exception raised in a classify handler is
\* answered by 500 with {error: <message of the exception>, labels: []}; the
\* fetch and the inference were each attempted at most once, and no 200
\* envelope is answered after a failure.
C4_ExceptionAnswers500 ==
    /\ (IsClassify(wire) /\ wire.handle # None /\ wire.exc # "none") =>
        /\ wire.status = 500
        /\ wire.body = [error |-> Message(wire.exc), labels |-> <<>>]
    /\ IsClassify(wire) => (wire.fetches <= 1 /\ wire.infers <= 1)
    /\ (IsClassify(wire) /\ wire.status = 200) => wire.exc = "none"

C4_Witness ==
    /\ wire.endpoint = "classify_url"
    /\ wire.exc = "Timeout"
    /\ wire.fetches = 1
    /\ wire.status = 500

\* C5: in every 200 envelope of a classify endpoint, objects is labels[0:5]:
\* the same entries in the same order, of length min(5, len(labels)).
C5_ObjectsAreFirstFiveLabels ==
    (IsClassify(wire) /\ wire.status = 200) =>
        /\ Len(wire.body.objects) = Smaller(5, Len(wire.body.labels))
        /\ \A i \in 1..Len(wire.body.objects) : wire.body.objects[i] = wire.body.labels[i]

C5_Witness ==
    /\ IsClassify(wire)
    /\ wire.status = 200
    /\ Len(wire.body.labels) = 7
    /\ Len(wire.body.objects) = 5
    /\ wire.body.labels[1].confidence # wire.body.labels[7].confidence

\* C6: in every 200 envelope of a classify endpoint, confidence is the
\* confidence of the first label, or 0 without labels; an empty ranked list is
\* answered by a 200 envelope with confidence 0, not by an error.
C6_ConfidenceIsTopLabel ==
    /\ (IsClassify(wire) /\ wire.status = 200) =>
        wire.body.confidence =
            IF wire.body.labels # <<>> THEN wire.body.labels[1].confidence ELSE 0
    /\ (IsClassify(wire) /\ wire.infers = 1 /\ wire.exc = "none" /\ wire.results = <<>>) =>
        /\ wire.status = 200
        /\ wire.body.labels = <<>>
        /\ wire.body.confidence = 0

C6_Witness ==
    /\ IsClassify(wire)
    /\ wire.status = 200
    /\ Len(wire.body.labels) >= 2
    /\ wire.body.confidence = 1
    /\ wire.body.labels[Len(wire.body.labels)].confidence = 0

\* C7: the labels of a 200 envelope are the first min(10, n) entries of the
\* ranked list the model returned, in its order, each as {description: label,
\* confidence: score}; so there are 0 to 10 of them in non-increasing confidence.
C7_LabelsAreFirstTenResults ==
    (IsClassify(wire) /\ wire.status = 200) =>
        /\ Len(wire.body.labels) = Smaller(10, Len(wire.results))
        /\ \A i \in 1..Len(wire.body.labels) :
            wire.body.labels[i] =
                [description |-> wire.results[i].label, confidence |-> wire.results[i].score]
        /\ \A i \in 1..(Len(wire.body.labels) - 1) :
            wire.body.labels[i].confidence >= wire.body.labels[i + 1].confidence

C7_Witness ==
    /\ wire.endpoint = "classify"
    /\ wire.status = 200
    /\ Len(wire.results) = 11
    /\ Len(wire.body.labels) = 10
    /\ wire.results[1].label = 11
    /\ wire.results[1].score # wire.results[11].score

\* C8: the handle goes from unset to set only in a load_model step and never
\* back; GET /health answers model_loaded = (classifier is not None) whatever
\* the request carries, and once it has answered true it never answers false.
C8_ReadyIsPermanent ==
    [][/\ classifier # None => classifier' # None
       /\ (classifier = None /\ classifier' # None) => loads' = loads + 1
       /\ (wire' # wire /\ wire'.endpoint = "health") =>
            /\ wire'.status = 200
            /\ wire'.body = [status |-> "ok", model_loaded |-> (classifier # None)]
            /\ healthy => wire'.body.model_loaded]_vars

C8_Witness ==
    /\ entry = "import"
    /\ loads = 2
    /\ healthy
    /\ wire.endpoint = "health"
    /\ wire.body.model_loaded

\* C9: run as a script, a failed load leaves the handle unset and ends the
\* process with a non-zero status before the server starts; the script loads
\* once, and every request it handles finds the model loaded.
C9_StartupFailureIsFatal ==
    /\ phase = "exited" =>
        /\ entry = "main"
        /\ exitCode # 0
        /\ classifier = None
    /\ entry = "main" =>
        /\ loads <= 1
        /\ phase = "serving" => classifier # None
        /\ phase # "serving" =>
            (wire = NoExchange /\ \A r \in Reqs : pending[r] = "idle")
        /\ wire # NoExchange => wire.handle # None

C9_Witness ==
    /\ entry = "main"
    /\ phase = "exited"
    /\ exitCode = 1
    /\ loads = 1

\* The reply a request gets when handled alone: a function of what it carries
\* and of what the environment and the model did for it.
AloneReply(w) ==
    IF w.endpoint = "health"
    THEN [status |-> 200, body |-> [status |-> "ok", model_loaded |-> (w.handle # None)]]
    ELSE IF w.handle = None
    THEN [status |-> 500, body |-> [error |-> "Model not loaded", labels |-> <<>>]]
    ELSE IF w.exc # "none"
    THEN [status |-> 500, body |-> [error |-> Message(w.exc), labels |-> <<>>]]
    ELSE IF w.req = "no_image"
    THEN [status |-> 400, body |-> [error |-> "No image file provided", labels |-> <<>>]]
    ELSE IF w.req \in {"string", "array", "object"}
    THEN [status |-> 400, body |-> [error |-> "No image URL provided", labels |-> <<>>]]
    ELSE [status |-> 200, body |-> Envelope(w.results)]

\* C10: however the requests interleave, a handler step leaves the model handle
\* and everything else shared between requests unchanged, and it moves only its
\* own request; each reply is the one the request gets when handled alone.
C10_HandlersShareNothing ==
    [][loads' = loads =>
        /\ UNCHANGED <<entry, phase, exitCode, classifier>>
        /\ Cardinality({r \in Reqs : pending'[r] # pending[r]}) <= 1
        /\ (wire' # wire /\ wire' # NoExchange) =>
            /\ wire'.exc # "NoneTypeNotCallable"
            /\ [status |-> wire'.status, body |-> wire'.body] = AloneReply(wire')]_vars

C10_Witness ==
    /\ \E r \in Reqs : pending[r] = "classify_url"
    /\ wire.endpoint = "classify"
    /\ wire.status = 200
    /\ wire.results # <<>>
====
